---- MODULE Spec2Model ----
(***************************************************************************)
(* Model of TwitterFastRetrieval (src/python/twitter_fast_retrieval.py)    *)
(* and of Post / parse_tags_from_post (src/python/post.py).                *)
(*                                                                         *)
(* A text is a sequence of one-character strings.  A tag is the sequence   *)
(* of characters after the '#'.  Python dicts keep insertion order, so the *)
(* timestamp index, whose key order the code relies on, is a sequence of   *)
(* [ts, pos] entries; the author and tag maps, whose key order is never    *)
(* used, are functions.  Positions are 0-based as in the code; the store   *)
(* is a TLA+ sequence, so position p is posts[p + 1].                      *)
(***************************************************************************)
EXTENDS Integers, Sequences, FiniteSets, TLC

\* ---------------------------------------------------------------- bounds
MaxPosts == 3
MaxQueryPosts == 2
MaxTime == 3

\* ------------------------------------------------------------- constants
MAX_POST_LENGTH == 140

Users == {"a", "b"}
Times == 1..MaxTime

\* ------------------------------------------------------------ characters
\* The characters TAG_REGEX accepts after '#', in code point order.
WordChars ==
  << "0", "1", "2", "3", "4", "5", "6", "7", "8", "9",
     "A", "B", "C", "D", "E", "F", "G", "H", "I", "J", "K", "L", "M",
     "N", "O", "P", "Q", "R", "S", "T", "U", "V", "W", "X", "Y", "Z",
     "_",
     "a", "b", "c", "d", "e", "f", "g", "h", "i", "j", "k", "l", "m",
     "n", "o", "p", "q", "r", "s", "t", "u", "v", "w", "x", "y", "z" >>

IsWordChar(c) == \E i \in 1..Len(WordChars) : WordChars[i] = c

\* End (1-based, inclusive) of the longest run of word characters that starts
\* at position i of text; i - 1 when text[i] is no word character.
RunEnd(text, i) ==
  CHOOSE j \in (i - 1)..Len(text) :
    /\ \A k \in i..j : IsWordChar(text[k])
    /\ (j = Len(text) \/ ~IsWordChar(text[j + 1]))

\* re.findall(TAG_REGEX, text), each match already stripped of its '#'.  A
\* match is a '#' and the greedy run of word characters after it; '#' is no
\* word character, so no '#' lies inside another match and the scan finds a
\* match at every '#' that a word character follows.
FindTags(text) ==
  {SubSeq(text, i + 1, RunEnd(text, i + 1)) :
     i \in {k \in 1..(Len(text) - 1) : text[k] = "#" /\ IsWordChar(text[k + 1])}}

parse_tags_from_post(post_text) == FindTags(post_text)

Post(user_name, post_text, timestamp) ==
  [user_name |-> user_name, post_text |-> post_text, timestamp |-> timestamp,
   tags |-> parse_tags_from_post(post_text)]

\* ----------------------------------------------------------------- texts
\* The texts callers submit: the empty one, one with two tags (one of them
\* twice), one of exactly MAX_POST_LENGTH characters with one tag and a '#'
\* that starts none, and one of MAX_POST_LENGTH + 1 characters.
EmptyText == << >>
TextXY == << "#", "x", " ", "#", "y", "#", "x" >>
MaxText ==
  [i \in 1..MAX_POST_LENGTH |->
     IF i \in {1, 3} THEN "#" ELSE IF i = 2 THEN "y" ELSE "!"]
LongText == [i \in 1..(MAX_POST_LENGTH + 1) |-> IF i = 1 THEN "#" ELSE "x"]

Texts == {EmptyText, TextXY, MaxText, LongText}

TagX == << "x" >>
TagY == << "y" >>
Topics == {TagX, TagY}

\* ----------------------------------------------------------------- state
\* posted counts the posts accepted so far; last is the latest call, its
\* arguments and how it ended.
VARIABLES user_to_timestamp, posts, timestamp_to_post_idx, tag_to_timestamp,
          posted, last

data == << user_to_timestamp, posts, timestamp_to_post_idx, tag_to_timestamp >>
vars == << user_to_timestamp, posts, timestamp_to_post_idx, tag_to_timestamp, posted, last >>

\* The empty dict.
EmptyMap == [k \in {} |-> << >>]

\* ------------------------------------------------- Python list semantics
\* lst[i] and del lst[i] accept -n <= i < n; a negative i counts from the end.
PyIndexOk(i, n) == -n <= i /\ i < n
PyNorm(i, n) == IF i < 0 THEN i + n ELSE i

\* del lst[i], for a valid i.
PyDel(lst, i) ==
  LET p == PyNorm(i, Len(lst)) + 1
  IN  SubSeq(lst, 1, p - 1) \o SubSeq(lst, p + 1, Len(lst))

\* A slice bound, clamped as lst[i:j] clamps it.
PySliceBound(i, n) ==
  IF i < 0 THEN (IF i + n < 0 THEN 0 ELSE i + n) ELSE (IF i > n THEN n ELSE i)

\* lst[i:j]
PySlice(lst, i, j) ==
  SubSeq(lst, PySliceBound(i, Len(lst)) + 1, PySliceBound(j, Len(lst)))

\* lst[::-1]
Reverse(lst) == [i \in 1..Len(lst) |-> lst[Len(lst) + 1 - i]]

\* x in lst
InList(x, lst) == \E i \in 1..Len(lst) : lst[i] = x

\* --------------------------------------- the insertion-ordered dict (idx)
IdxKeys(idx) == [i \in 1..Len(idx) |-> idx[i].ts]
IdxHas(idx, t) == \E i \in 1..Len(idx) : idx[i].ts = t
IdxGet(idx, t) == (CHOOSE e \in {idx[i] : i \in 1..Len(idx)} : e.ts = t).pos

\* idx[t] = p: an existing key keeps its place in the key order.
IdxSet(idx, t, p) ==
  IF IdxHas(idx, t)
  THEN [i \in 1..Len(idx) |-> IF idx[i].ts = t THEN [ts |-> t, pos |-> p] ELSE idx[i]]
  ELSE Append(idx, [ts |-> t, pos |-> p])

\* del idx[t], for an existing key.
IdxDel(idx, t) == SelectSeq(idx, LAMBDA e : e.ts # t)

\* list.index(x): 0-based position of the first x, for a present x.
ListIndex(lst, x) == (CHOOSE i \in 1..Len(lst) : lst[i] = x /\ \A j \in 1..(i - 1) : lst[j] # x) - 1

\* ------------------------------------------------------------------- init
Init ==
  /\ user_to_timestamp = EmptyMap
  /\ posts = << >>
  /\ timestamp_to_post_idx = << >>
  /\ tag_to_timestamp = EmptyMap
  /\ posted = 0
  /\ last = [op |-> "init"]

\* --------------------------------------------------------------- add_user
\* add_user that reports a registered name and resets its sequence.
add_user_Reset(user_name) ==
  /\ user_to_timestamp' =
       [u \in DOMAIN user_to_timestamp \cup {user_name} |->
          IF u = user_name THEN << >> ELSE user_to_timestamp[u]]
  /\ last' = [op |-> "add_user", user_name |-> user_name,
              outcome |-> IF user_name \in DOMAIN user_to_timestamp
                          THEN "AlreadyExists" ELSE "ok"]
  /\ UNCHANGED << posts, timestamp_to_post_idx, tag_to_timestamp, posted >>

add_user(user_name) ==
  IF user_name \in DOMAIN user_to_timestamp
  THEN /\ last' = [op |-> "add_user", user_name |-> user_name, outcome |-> "AlreadyExists"]
       /\ UNCHANGED << data, posted >>
  ELSE /\ user_to_timestamp' =
            [u \in DOMAIN user_to_timestamp \cup {user_name} |->
               IF u = user_name THEN << >> ELSE user_to_timestamp[u]]
       /\ last' = [op |-> "add_user", user_name |-> user_name, outcome |-> "ok"]
       /\ UNCHANGED << posts, timestamp_to_post_idx, tag_to_timestamp, posted >>

\* --------------------------------------------------------------- add_post
\* add_timestamp_to_map for one key.
add_timestamp_to_map(timestamp_map, key, timestamp) ==
  [k \in DOMAIN timestamp_map \cup {key} |->
     IF k = key
     THEN (IF key \in DOMAIN timestamp_map
           THEN Append(timestamp_map[key], timestamp)
           ELSE << timestamp >>)
     ELSE timestamp_map[k]]

\* The loop "for tag in post.tags: add_timestamp_to_map(...)": the keys are
\* distinct, so the order of the iteration does not show in the result.
add_timestamp_to_tags(timestamp_map, tags, timestamp) ==
  [k \in DOMAIN timestamp_map \cup tags |->
     IF k \in tags
     THEN (IF k \in DOMAIN timestamp_map
           THEN Append(timestamp_map[k], timestamp)
           ELSE << timestamp >>)
     ELSE timestamp_map[k]]

\* add_post with the text checked before the author.
AddPostCheck_TextFirst(user_name, post_text) ==
  IF Len(post_text) > MAX_POST_LENGTH THEN "TooLong"
  ELSE IF Len(post_text) = 0 THEN "EmptyPost"
  ELSE IF user_name \notin DOMAIN user_to_timestamp THEN "UnknownAuthor"
  ELSE "ok"

\* Lines 93-103: the first failing check of add_post, "ok" when all pass.
AddPostCheck(user_name, post_text) ==
  IF user_name \notin DOMAIN user_to_timestamp THEN "UnknownAuthor"
  ELSE IF Len(post_text) > MAX_POST_LENGTH THEN "TooLong"
  ELSE IF Len(post_text) = 0 THEN "EmptyPost"
  ELSE "ok"

add_post(user_name, post_text, timestamp) ==
  LET outcome == AddPostCheck(user_name, post_text)
      post == Post(user_name, post_text, timestamp)
      post_array_idx == (Len(posts) + 1) - 1
  IN  /\ last' = [op |-> "add_post", user_name |-> user_name, post_text |-> post_text,
                  outcome |-> outcome]
      /\ IF outcome # "ok"
         THEN UNCHANGED << data, posted >>
         ELSE /\ posted < MaxPosts
              /\ posted' = posted + 1
              /\ posts' = Append(posts, post)
              /\ timestamp_to_post_idx' =
                   IdxSet(timestamp_to_post_idx, timestamp, post_array_idx)
              /\ tag_to_timestamp' =
                   add_timestamp_to_tags(tag_to_timestamp, post.tags, timestamp)
              /\ user_to_timestamp' =
                   add_timestamp_to_map(user_to_timestamp, user_name, timestamp)

\* ------------------------------------------------------------ delete_user
\* Lines 141-144: the tags of the posts the user's timestamps resolve to, from
\* the k-th timestamp on.  Nothing is mutated here; a timestamp missing from
\* the index or a position outside the store ends the call.
RECURSIVE GatherTags(_, _, _)
GatherTags(delete_posts, k, acc) ==
  IF k > Len(delete_posts) THEN [outcome |-> "ok", tags |-> acc]
  ELSE IF ~IdxHas(timestamp_to_post_idx, delete_posts[k])
       THEN [outcome |-> "KeyError", tags |-> acc]
  ELSE LET post_idx == IdxGet(timestamp_to_post_idx, delete_posts[k])
       IN  IF ~PyIndexOk(post_idx, Len(posts))
           THEN [outcome |-> "IndexError", tags |-> acc]
           ELSE GatherTags(delete_posts, k + 1,
                           acc \cup posts[PyNorm(post_idx, Len(posts)) + 1].tags)

\* Lines 151-158 for the tags of done: drop the user's timestamps from each
\* sequence and delete the keys left with an empty one.
PruneTags(tag_map, done, delete_posts) ==
  LET pruned(tag) == SelectSeq(tag_map[tag], LAMBDA x : ~InList(x, delete_posts))
  IN  [tag \in {k \in DOMAIN tag_map : k \notin done \/ Len(pruned(k)) # 0} |->
         IF tag \in done THEN pruned(tag) ELSE tag_map[tag]]

\* Lines 173-185 from the k-th timestamp of update_delete_timestamps on; st
\* holds the store, the index, delete_list_idx and delete_offset.  The walk
\* ends the call when the delete list is exhausted but timestamps remain, or
\* when the shifted position is outside the store.
RECURSIVE Walk(_, _, _, _)
Walk(update_delete_timestamps, delete_post_timestamps, k, st) ==
  IF k > Len(update_delete_timestamps) THEN st
  ELSE LET timestamp == update_delete_timestamps[k]
       IN  IF st.delete_list_idx >= Len(delete_post_timestamps)
           THEN [st EXCEPT !.outcome = "IndexError"]
           ELSE IF timestamp = delete_post_timestamps[st.delete_list_idx + 1]
           THEN LET p == IdxGet(st.idx, timestamp) - st.delete_offset
                IN  IF ~PyIndexOk(p, Len(st.posts))
                    THEN [st EXCEPT !.outcome = "IndexError"]
                    ELSE Walk(update_delete_timestamps, delete_post_timestamps, k + 1,
                              [st EXCEPT !.posts = PyDel(st.posts, p),
                                         !.delete_list_idx = @ + 1,
                                         !.delete_offset = @ + 1])
           ELSE Walk(update_delete_timestamps, delete_post_timestamps, k + 1,
                     [st EXCEPT !.idx = IdxSet(st.idx, timestamp,
                                               IdxGet(st.idx, timestamp) - st.delete_offset)])

\* Lines 191-192 from the k-th timestamp on: del of a key already gone ends
\* the call.
RECURSIVE DropKeys(_, _, _)
DropKeys(delete_post_timestamps, k, idx) ==
  IF k > Len(delete_post_timestamps) THEN [outcome |-> "ok", idx |-> idx]
  ELSE IF ~IdxHas(idx, delete_post_timestamps[k])
       THEN [outcome |-> "KeyError", idx |-> idx]
       ELSE DropKeys(delete_post_timestamps, k + 1,
                     IdxDel(idx, delete_post_timestamps[k]))

\* The state a call leaves, with how it ended.
Outcome(o, u, p, i, t) ==
  [outcome |-> o, user_to_timestamp |-> u, posts |-> p,
   timestamp_to_post_idx |-> i, tag_to_timestamp |-> t]

\* Lines 160-192, entered with the tag map the pruning loop left.
DeleteFrom(user_name, tag_map) ==
  LET delete_post_timestamps == user_to_timestamp[user_name]
      keys == IdxKeys(timestamp_to_post_idx)
      unchanged(o) == Outcome(o, user_to_timestamp, posts, timestamp_to_post_idx, tag_map)
  IN  IF Len(delete_post_timestamps) = 0 THEN unchanged("IndexError")
      ELSE IF ~InList(delete_post_timestamps[1], keys) THEN unchanged("ValueError")
      ELSE
        LET start_update_timestamp == ListIndex(keys, delete_post_timestamps[1])
            update_delete_timestamps ==
              SubSeq(keys, start_update_timestamp + 1, Len(keys))
            w == Walk(update_delete_timestamps, delete_post_timestamps, 1,
                      [outcome |-> "ok", posts |-> posts, idx |-> timestamp_to_post_idx,
                       delete_list_idx |-> 0, delete_offset |-> 0])
            users == [u \in DOMAIN user_to_timestamp \ {user_name} |-> user_to_timestamp[u]]
            d == DropKeys(delete_post_timestamps, 1, w.idx)
        IN  IF w.outcome # "ok"
            THEN Outcome(w.outcome, user_to_timestamp, w.posts, w.idx, tag_map)
            ELSE Outcome(d.outcome, users, w.posts, d.idx, tag_map)

\* Every way a call of delete_user can end.  The pruning loop iterates over a
\* set; when a tag it meets is no key of the tag map the call ends there, with
\* the tags met before it pruned, and which those are depends on the order of
\* the iteration.
DeleteOutcomes(user_name) ==
  IF user_name \notin DOMAIN user_to_timestamp
  THEN {Outcome("NotFound", user_to_timestamp, posts, timestamp_to_post_idx,
                tag_to_timestamp)}
  ELSE
    LET delete_posts == user_to_timestamp[user_name]
        g == GatherTags(delete_posts, 1, {})
        tags_with_delete_posts == g.tags
        present == tags_with_delete_posts \cap DOMAIN tag_to_timestamp
    IN  IF g.outcome # "ok"
        THEN {Outcome(g.outcome, user_to_timestamp, posts, timestamp_to_post_idx,
                      tag_to_timestamp)}
        ELSE IF present # tags_with_delete_posts
        THEN {Outcome("KeyError", user_to_timestamp, posts, timestamp_to_post_idx,
                      PruneTags(tag_to_timestamp, done, delete_posts)) :
                done \in SUBSET present}
        ELSE {DeleteFrom(user_name,
                         PruneTags(tag_to_timestamp, tags_with_delete_posts, delete_posts))}

delete_user(user_name) ==
  \E r \in DeleteOutcomes(user_name) :
    /\ user_to_timestamp' = r.user_to_timestamp
    /\ posts' = r.posts
    /\ timestamp_to_post_idx' = r.timestamp_to_post_idx
    /\ tag_to_timestamp' = r.tag_to_timestamp
    /\ last' = [op |-> "delete_user", user_name |-> user_name, outcome |-> r.outcome]
    /\ UNCHANGED posted

\* ---------------------------------------------------------------- queries
\* The loop of lines 215-218 and 241-244 from the k-th timestamp on: each
\* timestamp is looked up in the index and its position in the store.
RECURSIVE Resolve(_, _, _)
Resolve(timestamps, k, out_posts) ==
  IF k > Len(timestamps) THEN [outcome |-> "ok", posts |-> out_posts]
  ELSE IF ~IdxHas(timestamp_to_post_idx, timestamps[k])
       THEN [outcome |-> "KeyError", posts |-> << >>]
  ELSE LET post_idx == IdxGet(timestamp_to_post_idx, timestamps[k])
       IN  IF ~PyIndexOk(post_idx, Len(posts))
           THEN [outcome |-> "IndexError", posts |-> << >>]
           ELSE Resolve(timestamps, k + 1,
                        Append(out_posts, posts[PyNorm(post_idx, Len(posts)) + 1]))

\* The posts get_posts_for_user reads, in the order it reads them.
PostsForUser(user_name) ==
  IF user_name \notin DOMAIN user_to_timestamp
  THEN [outcome |-> "NotFound", posts |-> << >>]
  ELSE Resolve(Reverse(user_to_timestamp[user_name]), 1, << >>)

\* The posts get_posts_for_topic reads, in the order it reads them.
PostsForTopic(topic) ==
  IF topic \notin DOMAIN tag_to_timestamp
  THEN [outcome |-> "NotFound", posts |-> << >>]
  ELSE Resolve(Reverse(tag_to_timestamp[topic]), 1, << >>)

\* What a query returns: the texts of the posts it read.
Texts_of(r) ==
  [outcome |-> r.outcome, result |-> [i \in 1..Len(r.posts) |-> r.posts[i].post_text]]

get_posts_for_user_result(user_name) == Texts_of(PostsForUser(user_name))
get_posts_for_topic_result(topic) == Texts_of(PostsForTopic(topic))

\* bisect.bisect_left(a, x) and bisect.bisect_right(a, x) as the library
\* computes them, on [lo, hi) with 0-based positions.
RECURSIVE BisectLeft(_, _, _, _)
BisectLeft(a, x, lo, hi) ==
  IF lo >= hi THEN lo
  ELSE LET mid == (lo + hi) \div 2
       IN  IF a[mid + 1] < x THEN BisectLeft(a, x, mid + 1, hi)
           ELSE BisectLeft(a, x, lo, mid)

RECURSIVE BisectRight(_, _, _, _)
BisectRight(a, x, lo, hi) ==
  IF lo >= hi THEN lo
  ELSE LET mid == (lo + hi) \div 2
       IN  IF x < a[mid + 1] THEN BisectRight(a, x, lo, mid)
           ELSE BisectRight(a, x, mid + 1, hi)

bisect_left(a, x) == BisectLeft(a, x, 0, Len(a))
bisect_right(a, x) == BisectRight(a, x, 0, Len(a))

\* Lines 260-276: the slice of the store the window selects.
IntervalStartIdx(from_timestamp) ==
  IF IdxHas(timestamp_to_post_idx, from_timestamp)
  THEN IdxGet(timestamp_to_post_idx, from_timestamp)
  ELSE bisect_left(IdxKeys(timestamp_to_post_idx), from_timestamp)

IntervalEndIdx(to_timestamp) ==
  IF IdxHas(timestamp_to_post_idx, to_timestamp)
  THEN IdxGet(timestamp_to_post_idx, to_timestamp) + 1
  ELSE bisect_right(IdxKeys(timestamp_to_post_idx), to_timestamp)

PostsInTimeRange(from_timestamp, to_timestamp) ==
  PySlice(posts, IntervalStartIdx(from_timestamp), IntervalEndIdx(to_timestamp))

\* Lines 279-281: the Counter over the tags of a sequence of posts.
CountedTags(post_seq) == UNION {post_seq[i].tags : i \in 1..Len(post_seq)}
TopicCount(post_seq, tag) == Cardinality({i \in 1..Len(post_seq) : tag \in post_seq[i].tags})

\* Python's order on strings of word characters: by code point, a proper
\* prefix first.
CodePoint(c) == CHOOSE i \in 1..Len(WordChars) : WordChars[i] = c

StrLess(s, t) ==
  \E k \in 1..(Len(s) + 1) :
    /\ k <= Len(t)
    /\ \A j \in 1..(k - 1) : s[j] = t[j]
    /\ (k = Len(s) + 1 \/ CodePoint(s[k]) < CodePoint(t[k]))

\* Lines 283-286: the counted tags sorted by the key (-count, tag).  The tags
\* are distinct, so the keys are, and the sorted list is the one list with
\* every tag at the place its number of smaller keys gives it.
SortedTopics(post_seq) ==
  LET tags == CountedTags(post_seq)
      before(s, t) ==
        \/ TopicCount(post_seq, s) > TopicCount(post_seq, t)
        \/ TopicCount(post_seq, s) = TopicCount(post_seq, t) /\ StrLess(s, t)
  IN  [i \in 1..Cardinality(tags) |->
         CHOOSE t \in tags : Cardinality({s \in tags : before(s, t)}) = i - 1]

get_trending_topics_result(from_timestamp, to_timestamp) ==
  SortedTopics(PostsInTimeRange(from_timestamp, to_timestamp))

\* get_posts_for_user that reverses the author's sequence in place instead of
\* reading a reversed copy.
get_posts_for_user_InPlace(user_name) ==
  /\ last' = [op |-> "get_posts_for_user", user_name |-> user_name,
              outcome |-> get_posts_for_user_result(user_name).outcome,
              result |-> get_posts_for_user_result(user_name).result]
  /\ user_to_timestamp' =
       [u \in DOMAIN user_to_timestamp |->
          IF u = user_name THEN Reverse(user_to_timestamp[u]) ELSE user_to_timestamp[u]]
  /\ UNCHANGED << posts, timestamp_to_post_idx, tag_to_timestamp, posted >>

get_posts_for_user(user_name) ==
  /\ last' = [op |-> "get_posts_for_user", user_name |-> user_name,
              outcome |-> get_posts_for_user_result(user_name).outcome,
              result |-> get_posts_for_user_result(user_name).result]
  /\ UNCHANGED << data, posted >>

get_posts_for_topic(topic) ==
  /\ last' = [op |-> "get_posts_for_topic", topic |-> topic,
              outcome |-> get_posts_for_topic_result(topic).outcome,
              result |-> get_posts_for_topic_result(topic).result]
  /\ UNCHANGED << data, posted >>

get_trending_topics(from_timestamp, to_timestamp) ==
  /\ last' = [op |-> "get_trending_topics", from_timestamp |-> from_timestamp,
              to_timestamp |-> to_timestamp, outcome |-> "ok",
              result |-> get_trending_topics_result(from_timestamp, to_timestamp)]
  /\ UNCHANGED << data, posted >>

\* ------------------------------------------------------- specifications
Mutate ==
  \/ \E user_name \in Users : add_user(user_name)
  \/ \E user_name \in Users, post_text \in Texts, timestamp \in Times :
        add_post(user_name, post_text, timestamp)
  \/ \E user_name \in Users : delete_user(user_name)

\* All six operations, in any order, with up to MaxQueryPosts accepted posts.
Next ==
  \/ \E user_name \in Users : add_user(user_name)
  \/ \E user_name \in Users, post_text \in Texts, timestamp \in Times :
        add_post(user_name, post_text, timestamp) /\ posted' <= MaxQueryPosts
  \/ \E user_name \in Users : delete_user(user_name)
  \/ \E user_name \in Users : get_posts_for_user(user_name)
  \/ \E topic \in Topics : get_posts_for_topic(topic)
  \/ \E from_timestamp \in Times, to_timestamp \in Times :
        get_trending_topics(from_timestamp, to_timestamp)

Spec == Init /\ [][Next]_vars

\* The three operations that change the service, in any order, with up to
\* MaxPosts accepted posts.
SpecM == Init /\ [][Mutate]_vars

\* ------------------------------------------------------------ properties
TimestampsOf(post_seq) == [i \in 1..Len(post_seq) |-> post_seq[i].timestamp]
StoreTimestamps == {posts[i].timestamp : i \in 1..Len(posts)}
IndexKeys == {timestamp_to_post_idx[i].ts : i \in 1..Len(timestamp_to_post_idx)}
InSeq(post_seq) == {post_seq[i] : i \in 1..Len(post_seq)}
Taxonomy ==
  {"AlreadyExists", "NotFound", "UnknownAuthor", "EmptyPost", "TooLong",
   "DuplicateTimestamp"}

\* C1 (index parity): the keys of timestamp_to_post_idx are exactly the
\* timestamps of the posts in the store, the keys are in the same relative
\* order as the posts they name, and the position recorded for a timestamp is
\* the position in the store of a post with that timestamp.
C1_IndexParity ==
  /\ IndexKeys = StoreTimestamps
  /\ \A i, j \in 1..Len(timestamp_to_post_idx) :
       i < j =>
         \A p, q \in 1..Len(posts) :
           (/\ posts[p].timestamp = timestamp_to_post_idx[i].ts
            /\ posts[q].timestamp = timestamp_to_post_idx[j].ts) => p < q
  /\ \A i \in 1..Len(timestamp_to_post_idx) :
       /\ timestamp_to_post_idx[i].pos \in 0..(Len(posts) - 1)
       /\ posts[timestamp_to_post_idx[i].pos + 1].timestamp = timestamp_to_post_idx[i].ts

\* C2 (cascade atomicity): a call of delete_user on a registered author ends
\* in success with the author gone, whatever the place of the author's posts
\* in the store; on an unregistered author it ends in NotFound with nothing
\* changed; it never ends with the author still registered and anything
\* changed.
C2_CascadeAtomic ==
  [][last'.op = "delete_user" =>
       IF last'.user_name \in DOMAIN user_to_timestamp
       THEN /\ last'.outcome = "ok"
            /\ last'.user_name \notin DOMAIN user_to_timestamp'
       ELSE /\ last'.outcome = "NotFound"
            /\ UNCHANGED data]_vars

\* C3 (uniqueness): no two posts in the store share a timestamp, and an
\* add_post whose timestamp is already in the store ends in
\* DuplicateTimestamp and changes nothing.
NoSharedTimestamp ==
  \A i, j \in 1..Len(posts) : i # j => posts[i].timestamp # posts[j].timestamp

C3_Uniqueness ==
  /\ []NoSharedTimestamp
  /\ [][\A user_name \in Users, post_text \in Texts, timestamp \in Times :
          (/\ add_post(user_name, post_text, timestamp)
           /\ AddPostCheck(user_name, post_text) = "ok"
           /\ timestamp \in StoreTimestamps)
          => (last'.outcome = "DuplicateTimestamp" /\ UNCHANGED data)]_vars

\* C4 (cascade completeness): after delete_user(a) on a registered author a,
\* a is not registered (get_posts_for_user(a) ends in NotFound), the store has
\* no post of a, and no tag sequence, author sequence or index key holds a
\* timestamp that a's sequence held.
C4_CascadeComplete ==
  [][\A a \in Users :
       (/\ last'.op = "delete_user"
        /\ last'.user_name = a
        /\ a \in DOMAIN user_to_timestamp) =>
         LET former == InSeq(user_to_timestamp[a])
         IN  /\ get_posts_for_user_result(a)'.outcome = "NotFound"
             /\ \A i \in 1..Len(posts') : posts'[i].user_name # a
             /\ \A tag \in DOMAIN tag_to_timestamp' :
                  InSeq(tag_to_timestamp'[tag]) \cap former = {}
             /\ \A u \in DOMAIN user_to_timestamp' :
                  InSeq(user_to_timestamp'[u]) \cap former = {}
             /\ IndexKeys' \cap former = {}]_vars

\* C5 (tag index): a tag is a key of tag_to_timestamp exactly when a post in
\* the store carries it, its sequence is the timestamps of those posts in
\* store order, and no key maps to an empty sequence.
Carriers(tag) == SelectSeq(posts, LAMBDA post : tag \in post.tags)

C5_TagIndex ==
  /\ \A tag \in Topics \cup DOMAIN tag_to_timestamp \cup CountedTags(posts) :
       tag \in DOMAIN tag_to_timestamp <=> Len(Carriers(tag)) > 0
  /\ \A tag \in DOMAIN tag_to_timestamp :
       /\ tag_to_timestamp[tag] = TimestampsOf(Carriers(tag))
       /\ Len(tag_to_timestamp[tag]) > 0

\* C6 (range correctness): for every window, get_trending_topics counts
\* exactly the posts of the store whose timestamp lies in [from, to], each
\* once for every tag it carries.
InWindow(from_timestamp, to_timestamp) ==
  SelectSeq(posts, LAMBDA post :
              from_timestamp <= post.timestamp /\ post.timestamp <= to_timestamp)

C6_RangeCorrect ==
  \A from_timestamp \in Times, to_timestamp \in Times :
    LET counted == PostsInTimeRange(from_timestamp, to_timestamp)
        wanted == InWindow(from_timestamp, to_timestamp)
    IN  /\ CountedTags(counted) = CountedTags(wanted)
        /\ \A tag \in CountedTags(wanted) :
             TopicCount(counted, tag) = TopicCount(wanted, tag)

\* C7 (order laws): the texts get_posts_for_user and get_posts_for_topic
\* return come from posts of strictly descending timestamps.
StrictlyDescending(post_seq) ==
  \A i, j \in 1..Len(post_seq) : i < j => post_seq[i].timestamp > post_seq[j].timestamp

C7_OrderLaws ==
  /\ \A user_name \in Users :
       PostsForUser(user_name).outcome = "ok" =>
         StrictlyDescending(PostsForUser(user_name).posts)
  /\ \A topic \in Topics :
       PostsForTopic(topic).outcome = "ok" =>
         StrictlyDescending(PostsForTopic(topic).posts)

\* C8 (no internal errors): every call ends in success or in an error of the
\* taxonomy, never in an internal fault.
C8_NoInternalError ==
  last.op # "init" => last.outcome \in Taxonomy \cup {"ok"}

\* C9 (unregistering an author with no posts): delete_user on a registered
\* author with an empty sequence succeeds, removes that author's entry and
\* changes nothing else.
C9_DeleteEmptyAuthor ==
  [][(/\ last'.op = "delete_user"
      /\ last'.user_name \in DOMAIN user_to_timestamp
      /\ user_to_timestamp[last'.user_name] = << >>) =>
       /\ last'.outcome = "ok"
       /\ user_to_timestamp' =
            [u \in DOMAIN user_to_timestamp \ {last'.user_name} |-> user_to_timestamp[u]]
       /\ UNCHANGED << posts, timestamp_to_post_idx, tag_to_timestamp >>]_vars

C12_QueryNotFound ==
  /\ \A user_name \in Users :
       /\ (get_posts_for_user_result(user_name).outcome = "NotFound") <=>
            (user_name \notin DOMAIN user_to_timestamp)
       /\ (/\ user_name \in DOMAIN user_to_timestamp
           /\ user_to_timestamp[user_name] = << >>) =>
            get_posts_for_user_result(user_name) = [outcome |-> "ok", result |-> << >>]
  /\ \A topic \in Topics :
       (get_posts_for_topic_result(topic).outcome = "NotFound") <=>
         (Len(Carriers(topic)) = 0)

\* C13 (query content): get_posts_for_user on a registered name reads exactly
\* the posts of the store that name authored, each once, and
\* get_posts_for_topic on a tag with a key reads exactly the posts of the
\* store that carry the tag, each once, so that the texts returned are theirs.
Count(post_seq, post) == Cardinality({i \in 1..Len(post_seq) : post_seq[i] = post})

SamePosts(read, stored) ==
  \A post \in InSeq(read) \cup InSeq(stored) : Count(read, post) = Count(stored, post)

AuthoredBy(user_name) == SelectSeq(posts, LAMBDA post : post.user_name = user_name)

C13_QueryContent ==
  /\ \A user_name \in DOMAIN user_to_timestamp :
       /\ PostsForUser(user_name).outcome = "ok"
       /\ SamePosts(PostsForUser(user_name).posts, AuthoredBy(user_name))
  /\ \A topic \in DOMAIN tag_to_timestamp :
       /\ PostsForTopic(topic).outcome = "ok"
       /\ SamePosts(PostsForTopic(topic).posts, Carriers(topic))

\* C14 (trending order and tie-break): for every window, the list
\* get_trending_topics returns holds each tag carried by a stored post of the
\* window exactly once, a tag mentioned by more posts of the window comes
\* before one mentioned by fewer, and of two tags mentioned equally often the
\* lexicographically smaller comes first.
C14_TrendingOrder ==
  \A from_timestamp \in Times, to_timestamp \in Times :
    LET result == get_trending_topics_result(from_timestamp, to_timestamp)
        window == InWindow(from_timestamp, to_timestamp)
    IN  /\ InSeq(result) = CountedTags(window)
        /\ \A i, j \in 1..Len(result) :
             i < j =>
               /\ result[i] # result[j]
               /\ \/ TopicCount(window, result[i]) > TopicCount(window, result[j])
                  \/ /\ TopicCount(window, result[i]) = TopicCount(window, result[j])
                     /\ StrLess(result[i], result[j])

\* C15 (trending never fails): a call of get_trending_topics ends without an
\* error, and for every window that is reversed (from > to) or holds the
\* timestamp of no stored post, the empty store included, the list it returns
\* is empty.
C15_TrendingNeverFails ==
  /\ last.op = "get_trending_topics" => last.outcome = "ok"
  /\ \A from_timestamp \in Times, to_timestamp \in Times :
       (\/ from_timestamp > to_timestamp
        \/ Len(InWindow(from_timestamp, to_timestamp)) = 0) =>
         get_trending_topics_result(from_timestamp, to_timestamp) = << >>

\* C16 (window invariance): widening a window from [a, b] to [a2, b2], with
\* a2 <= a and b <= b2, across timestamps that no stored post has (none in
\* [a2, a) and none in (b, b2]) does not change what get_trending_topics
\* returns.
NoPostIn(lo, hi) ==
  \A i \in 1..Len(posts) : ~(lo <= posts[i].timestamp /\ posts[i].timestamp <= hi)

C16_WindowInvariance ==
  \A a \in Times, b \in Times, a2 \in Times, b2 \in Times :
    (/\ a2 <= a
     /\ b <= b2
     /\ NoPostIn(a2, a - 1)
     /\ NoPostIn(b + 1, b2)) =>
      get_trending_topics_result(a2, b2) = get_trending_topics_result(a, b)

\* C17 (store ordering): the timestamps of the store are strictly ascending
\* with the position, and every author sequence and every tag sequence is
\* strictly ascending.
StrictlyAscending(timestamps) ==
  \A i, j \in 1..Len(timestamps) : i < j => timestamps[i] < timestamps[j]

C17_StoreOrdering ==
  /\ StrictlyAscending(TimestampsOf(posts))
  /\ \A user_name \in DOMAIN user_to_timestamp :
       StrictlyAscending(user_to_timestamp[user_name])
  /\ \A tag \in DOMAIN tag_to_timestamp :
       StrictlyAscending(tag_to_timestamp[tag])

\* C18 (delete preserves survivors): after delete_user(a) on a registered
\* author, the store is the old store without a's posts, in the old order; the
\* position recorded for each surviving post is its old position less the
\* number of a's posts before it; every other author keeps its sequence; and
\* every tag sequence that remains is the old one without a's timestamps, in
\* the old order.
C18_DeletePreservesSurvivors ==
  [][\A a \in Users :
       (/\ last'.op = "delete_user"
        /\ last'.user_name = a
        /\ a \in DOMAIN user_to_timestamp) =>
         /\ posts' = SelectSeq(posts, LAMBDA post : post.user_name # a)
         /\ \A i \in 1..Len(posts) :
              posts[i].user_name # a =>
                /\ IdxHas(timestamp_to_post_idx', posts[i].timestamp)
                /\ IdxGet(timestamp_to_post_idx', posts[i].timestamp) =
                     (i - 1) - Cardinality({j \in 1..(i - 1) : posts[j].user_name = a})
         /\ \A u \in DOMAIN user_to_timestamp \ {a} :
              /\ u \in DOMAIN user_to_timestamp'
              /\ user_to_timestamp'[u] = user_to_timestamp[u]
         /\ \A tag \in DOMAIN tag_to_timestamp' :
              /\ tag \in DOMAIN tag_to_timestamp
              /\ tag_to_timestamp'[tag] =
                   SelectSeq(tag_to_timestamp[tag],
                             LAMBDA t : ~InList(t, user_to_timestamp[a]))]_vars

\* C19 (author index invariant): a timestamp is in the sequence of an author
\* exactly when the store holds a post of that author with that timestamp,
\* and every post of the store has a registered author.
C19_AuthorIndex ==
  /\ \A user_name \in Users, timestamp \in Times :
       (/\ user_name \in DOMAIN user_to_timestamp
        /\ InList(timestamp, user_to_timestamp[user_name])) <=>
         (\E i \in 1..Len(posts) :
            posts[i].user_name = user_name /\ posts[i].timestamp = timestamp)
  /\ \A i \in 1..Len(posts) : posts[i].user_name \in DOMAIN user_to_timestamp

\* C20 (insert effect): an add_post(a, text, t) that succeeds appends one post
\* to the store and leaves the posts already there in place; records the old
\* length of the store as the position of t and leaves every position
\* recorded before as it was; appends t once to a's sequence and once to the
\* sequence of each distinct tag of the text, with a new key for a new tag;
\* and leaves the sequences of the other authors and the other tags unchanged.
C20_InsertEffect ==
  [][\A a \in Users, text \in Texts, t \in Times :
       (/\ add_post(a, text, t)
        /\ AddPostCheck(a, text) = "ok") =>
         /\ posts' = Append(posts, [user_name |-> a, post_text |-> text,
                                    timestamp |-> t, tags |-> FindTags(text)])
         /\ IndexKeys' = IndexKeys \cup {t}
         /\ IdxGet(timestamp_to_post_idx', t) = Len(posts)
         /\ \A k \in IndexKeys :
              IdxGet(timestamp_to_post_idx', k) = IdxGet(timestamp_to_post_idx, k)
         /\ DOMAIN user_to_timestamp' = DOMAIN user_to_timestamp
         /\ user_to_timestamp'[a] = Append(user_to_timestamp[a], t)
         /\ \A u \in DOMAIN user_to_timestamp \ {a} :
              user_to_timestamp'[u] = user_to_timestamp[u]
         /\ DOMAIN tag_to_timestamp' = DOMAIN tag_to_timestamp \cup FindTags(text)
         /\ \A tag \in FindTags(text) :
              tag_to_timestamp'[tag] =
                IF tag \in DOMAIN tag_to_timestamp
                THEN Append(tag_to_timestamp[tag], t) ELSE << t >>
         /\ \A tag \in DOMAIN tag_to_timestamp \ FindTags(text) :
              tag_to_timestamp'[tag] = tag_to_timestamp[tag]]_vars

\* C21 (queries are read-only): a call of get_posts_for_user,
\* get_posts_for_topic or get_trending_topics, however it ends, leaves the
\* store, the timestamp index, the author sequences and the tag sequences as
\* they were, so the calls after it meet the state they would have met
\* without it.
Queries == {"get_posts_for_user", "get_posts_for_topic", "get_trending_topics"}

C21_QueriesReadOnly ==
  [][last'.op \in Queries => UNCHANGED data]_vars

\* A query on a service that holds posts has ended in NotFound.
C21_Witness ==
  /\ last.op \in Queries
  /\ last.outcome = "NotFound"
  /\ Len(posts) > 0

\* C22 (re-registration after delete): when delete_user(a) has succeeded,
\*   - an add_user(a) that follows it succeeds, a's sequence is empty,
\*     get_posts_for_user(a) returns the empty list, and no query reads a
\*     post of a (a has written none since, so such a post is a former one);
\*   - every timestamp a's sequence held can be inserted again: registering a
\*     and adding a post of a with that timestamp gives a store and a
\*     timestamp index in parity.
\* IndexParityOf is the parity of C1 for a given store and index.
IndexParityOf(post_seq, idx) ==
  /\ {idx[i].ts : i \in 1..Len(idx)} = {post_seq[i].timestamp : i \in 1..Len(post_seq)}
  /\ \A i, j \in 1..Len(idx) :
       i < j =>
         \A p, q \in 1..Len(post_seq) :
           (/\ post_seq[p].timestamp = idx[i].ts
            /\ post_seq[q].timestamp = idx[j].ts) => p < q
  /\ \A i \in 1..Len(idx) :
       /\ idx[i].pos \in 0..(Len(post_seq) - 1)
       /\ post_seq[idx[i].pos + 1].timestamp = idx[i].ts

\* No query reads a post written by user_name.
NoQueryReads(user_name) ==
  LET foreign(post_seq) == \A i \in 1..Len(post_seq) : post_seq[i].user_name # user_name
  IN  /\ \A u \in Users : foreign(PostsForUser(u).posts)
      /\ \A topic \in Topics : foreign(PostsForTopic(topic).posts)
      /\ \A from_timestamp \in Times, to_timestamp \in Times :
           foreign(PostsInTimeRange(from_timestamp, to_timestamp))

C22_ReRegistration ==
  [][\A a \in Users :
       /\ (/\ last.op = "delete_user"
           /\ last.user_name = a
           /\ last.outcome = "ok"
           /\ last'.op = "add_user"
           /\ last'.user_name = a) =>
            /\ last'.outcome = "ok"
            /\ a \in DOMAIN user_to_timestamp'
            /\ user_to_timestamp'[a] = << >>
            /\ get_posts_for_user_result(a)' = [outcome |-> "ok", result |-> << >>]
            /\ NoQueryReads(a)'
       /\ (/\ last'.op = "delete_user"
           /\ last'.user_name = a
           /\ last'.outcome = "ok") =>
            /\ a \notin DOMAIN user_to_timestamp'
            /\ \A k \in 1..Len(user_to_timestamp[a]) :
                 \A text \in {TextXY, MaxText} :
                   IndexParityOf(
                     Append(posts', Post(a, text, user_to_timestamp[a][k])),
                     IdxSet(timestamp_to_post_idx', user_to_timestamp[a][k], Len(posts')))]_vars

====
